---- MODULE Spec2Model ----
(***************************************************************************)
(* Model of arvis_assistant.py: the wake -> record -> transcribe -> ask    *)
(* -> speak loop of main(), the temporary WAV file written by              *)
(* record_audio and removed by main's finally block, and the exits of the  *)
(* process.  Text values are sequences of one-character strings so that    *)
(* str.strip and str.lower are computed, not assumed.                      *)
(***************************************************************************)
EXTENDS Integers, Sequences, FiniteSets, TLC

VARIABLES
    pc,          \* position of the single thread of control
    exitCode,    \* process exit status, NoExit while running
    apiKey,      \* os.environ.get("GOOGLE_API_KEY")
    configured,  \* the key handed to genai.configure
    device,      \* args.device
    lastInput,   \* outcome of the last input() call in detect_wake_word
    turn,        \* number of turns started (detect_wake_word returned True)
    files,       \* temporary WAV files that exist on disk
    recording,   \* record_audio local: the recorded buffer
    f_name,      \* record_audio local: f.name / wav_path
    wav_path,    \* main local
    user_text,   \* main local
    reply,       \* main local
    raised,      \* exception pending in main's try block
    trace        \* calls made in the current turn, in order

vars == <<pc, exitCode, apiKey, configured, device, lastInput, turn, files,
          recording, f_name, wav_path, user_text, reply, raised, trace>>

----------------------------------------------------------------------------
(* Bounds *)

MaxTurns == 2

(* Values *)

NoExit == -1
NoKey == "None"
NoDevice == -1
NoPath == "unbound"
NoBuffer == "unbound"
NoText == <<"unbound">>
NoError == "none"

Keys == {NoKey, "key"}
Devices == {NoDevice, 0, 1}
Paths == {"tmpA.wav", "tmpB.wav"}

Whitespace == {" ", "\t", "\n"}
UpperAlpha == <<"A","B","C","D","E","F","G","H","I","J","K","L","M",
                "N","O","P","Q","R","S","T","U","V","W","X","Y","Z">>
LowerAlpha == <<"a","b","c","d","e","f","g","h","i","j","k","l","m",
                "n","o","p","q","r","s","t","u","v","w","x","y","z">>

Jarvis == <<"j","a","r","v","i","s">>

\* Lines the operator may type at the prompt.
Lines == { Jarvis,
           <<"J","a","r","v","i","s">>,
           <<" ","J","A","R","V","I","S","\t">>,
           <<"j","a","r","v","i","s"," ","x">>,
           <<"j","a","r"," ","v","i","s">>,
           <<>> }

StdinEvents ==
    { [kind |-> "line", text |-> l] : l \in Lines }
    \cup { [kind |-> "KeyboardInterrupt", text |-> <<>>],
           [kind |-> "EOFError", text |-> <<>>] }

NoInput == [kind |-> "none", text |-> <<>>]

\* result["text"] values of the Whisper model.
Transcripts == { <<>>, <<"h","i">>, <<" ","h","i">> }

\* response.text values of the Gemini model.
Responses == { <<"P","a","r","i","s",".">>,
               <<" ","P","a","r","i","s",".","\n">>,
               <<" ">> }

----------------------------------------------------------------------------
(* str.strip() and str.lower() *)

RECURSIVE LStrip(_)
LStrip(s) ==
    IF s = <<>> THEN <<>>
    ELSE IF Head(s) \in Whitespace THEN LStrip(Tail(s)) ELSE s

RECURSIVE RStrip(_)
RStrip(s) ==
    IF s = <<>> THEN <<>>
    ELSE IF s[Len(s)] \in Whitespace THEN RStrip(SubSeq(s, 1, Len(s) - 1))
    ELSE s

Strip(s) == RStrip(LStrip(s))

LowerChar(c) ==
    IF \E i \in 1..26 : UpperAlpha[i] = c
    THEN LowerAlpha[CHOOSE i \in 1..26 : UpperAlpha[i] = c]
    ELSE c

Lower(s) == [i \in 1..Len(s) |-> LowerChar(s[i])]

----------------------------------------------------------------------------
(* detect_wake_word *)

WakeOutcomeInterruptReturnsTrue(ev) ==
    IF ev.kind = "line"
    THEN [kind |-> "return", value |-> Lower(Strip(ev.text)) = Jarvis, code |-> NoExit]
    ELSE IF ev.kind = "KeyboardInterrupt"
    THEN [kind |-> "return", value |-> TRUE, code |-> NoExit]
    ELSE [kind |-> "raise", value |-> FALSE, code |-> 1]

\* What detect_wake_word does with the outcome of input(): a line is
\* stripped, lower-cased and compared; KeyboardInterrupt is caught and turned
\* into sys.exit(0); any other exception (EOFError) propagates.
WakeOutcome(ev) ==
    IF ev.kind = "line"
    THEN [kind |-> "return", value |-> Lower(Strip(ev.text)) = Jarvis, code |-> NoExit]
    ELSE IF ev.kind = "KeyboardInterrupt"
    THEN [kind |-> "exit", value |-> FALSE, code |-> 0]
    ELSE [kind |-> "raise", value |-> FALSE, code |-> 1]

----------------------------------------------------------------------------
(* record_audio: the order of its three effects *)

RecordAudioStepsFileFirst == <<"mktemp", "rec", "wavwrite">>

RecordAudioSteps == <<"rec", "mktemp", "wavwrite">>

\* The position after step s of record_audio succeeded.
StepAfter(s) ==
    LET i == CHOOSE k \in 1..Len(RecordAudioSteps) : RecordAudioSteps[k] = s
    IN IF i < Len(RecordAudioSteps) THEN RecordAudioSteps[i + 1] ELSE "return"

----------------------------------------------------------------------------
(* main: the try block *)

WakeBranchAlways(woke) == RecordAudioSteps[1]

\* `if detect_wake_word():` - the turn starts only on True.
WakeBranch(woke) == IF woke THEN RecordAudioSteps[1] ELSE "wait"

AfterStageKeepGoing(stage, ok) ==
    CASE stage = "transcribe" -> "infer"
      [] stage = "infer" -> "speak"
      [] stage = "speak" -> "finally"

\* Where control goes after a stage of the try block: the next statement
\* when it returned, the finally block when it raised.
AfterStage(stage, ok) ==
    IF ~ok THEN "finally"
    ELSE CASE stage = "transcribe" -> "infer"
           [] stage = "infer" -> "speak"
           [] stage = "speak" -> "finally"

SpeakInputTranscript(ut, rp) == ut

\* speak(reply)
SpeakInput(ut, rp) == rp

ReleaseOnSuccessOnly(path, fs, exc) ==
    IF exc = NoError /\ path \in fs THEN fs \ {path} ELSE fs

\* finally: if os.path.exists(wav_path): os.remove(wav_path)
Release(path, fs, exc) == IF path \in fs THEN fs \ {path} ELSE fs

Event(op, arg, ret, ok) == [op |-> op, arg |-> arg, ret |-> ret, ok |-> ok]

----------------------------------------------------------------------------
Init ==
    /\ pc = "import"
    /\ exitCode = NoExit
    /\ apiKey \in Keys
    /\ configured = "unset"
    /\ device = NoDevice
    /\ lastInput = NoInput
    /\ turn = 0
    /\ files = {}
    /\ recording = NoBuffer
    /\ f_name = NoPath
    /\ wav_path = NoPath
    /\ user_text = NoText
    /\ reply = NoText
    /\ raised = NoError
    /\ trace = <<>>

\* Module level: pyttsx3.init(), genai.configure(api_key=os.environ.get(..)),
\* genai.GenerativeModel(..).  The key is passed on as it is, None included.
ModuleInit ==
    /\ pc = "import"
    /\ configured' = apiKey
    /\ pc' = "main"
    /\ UNCHANGED <<exitCode, apiKey, device, lastInput, turn, files, recording,
                   f_name, wav_path, user_text, reply, raised, trace>>

\* main up to the loop: parse --device, print the banner, load Whisper.
MainSetup ==
    /\ pc = "main"
    /\ \E d \in Devices : device' = d
    /\ pc' = "wait"
    /\ UNCHANGED <<exitCode, apiKey, configured, lastInput, turn, files,
                   recording, f_name, wav_path, user_text, reply, raised, trace>>

\* whisper.load_model raises: the exception leaves main.
MainSetupFail ==
    /\ pc = "main"
    /\ pc' = "exited"
    /\ exitCode' = 1
    /\ UNCHANGED <<apiKey, configured, device, lastInput, turn, files,
                   recording, f_name, wav_path, user_text, reply, raised, trace>>

\* detect_wake_word() and the `if` of the loop.
DetectWakeWord ==
    /\ pc = "wait"
    /\ \E ev \in StdinEvents :
         LET out == WakeOutcome(ev) IN
         /\ lastInput' = ev
         /\ \/ /\ out.kind = "return"
               /\ WakeBranch(out.value) # "wait" => turn < MaxTurns
               /\ pc' = WakeBranch(out.value)
               /\ exitCode' = exitCode
               /\ IF pc' = "wait"
                  THEN UNCHANGED <<turn, trace, raised>>
                  ELSE /\ turn' = turn + 1
                       /\ trace' = <<>>
                       /\ raised' = NoError
            \/ /\ out.kind \in {"exit", "raise"}
               /\ pc' = "exited"
               /\ exitCode' = out.code
               /\ UNCHANGED <<turn, trace, raised>>
    /\ UNCHANGED <<apiKey, configured, device, files, recording, f_name,
                   wav_path, user_text, reply>>

\* Leaving a step of record_audio that succeeded; the last one returns
\* wav_path to main, which enters the try block.
RecordStepDone(s, name) ==
    /\ pc' = IF StepAfter(s) = "return" THEN "transcribe" ELSE StepAfter(s)
    /\ wav_path' = IF StepAfter(s) = "return" THEN name ELSE wav_path

\* An exception inside record_audio is outside main's try: it leaves main.
RecordStepRaise ==
    /\ pc' = "exited"
    /\ exitCode' = 1

\* sd.rec(...); sd.wait()
SdRec ==
    /\ pc = "rec"
    /\ recording' = "buffer"
    /\ trace' = Append(trace, Event("rec", device, "buffer", TRUE))
    /\ RecordStepDone("rec", f_name)
    /\ UNCHANGED <<exitCode, apiKey, configured, device, lastInput, turn, files,
                   f_name, user_text, reply, raised>>

SdRecFail ==
    /\ pc = "rec"
    /\ trace' = Append(trace, Event("rec", device, NoBuffer, FALSE))
    /\ RecordStepRaise
    /\ UNCHANGED <<apiKey, configured, device, lastInput, turn, files, recording,
                   f_name, wav_path, user_text, reply, raised>>

\* tempfile.NamedTemporaryFile(delete=False, suffix=".wav"): a new file
\* under a name no existing file has.
MkTemp ==
    /\ pc = "mktemp"
    /\ \E p \in Paths \ files :
         /\ files' = files \cup {p}
         /\ f_name' = p
         /\ trace' = Append(trace, Event("mktemp", p, NoText, TRUE))
         /\ RecordStepDone("mktemp", p)
    /\ UNCHANGED <<exitCode, apiKey, configured, device, lastInput, turn,
                   recording, user_text, reply, raised>>

MkTempFail ==
    /\ pc = "mktemp"
    /\ trace' = Append(trace, Event("mktemp", NoPath, NoText, FALSE))
    /\ RecordStepRaise
    /\ UNCHANGED <<apiKey, configured, device, lastInput, turn, files, recording,
                   f_name, wav_path, user_text, reply, raised>>

\* wave.open(wav_path, "wb") ... wf.writeframes(recording.tobytes())
WavWrite ==
    /\ pc = "wavwrite"
    /\ trace' = Append(trace, Event("wavwrite", f_name, NoText, TRUE))
    /\ RecordStepDone("wavwrite", f_name)
    /\ UNCHANGED <<exitCode, apiKey, configured, device, lastInput, turn, files,
                   recording, f_name, user_text, reply, raised>>

\* Writing the header or the samples raises: nothing removes the file.
WavWriteFail ==
    /\ pc = "wavwrite"
    /\ trace' = Append(trace, Event("wavwrite", f_name, NoText, FALSE))
    /\ RecordStepRaise
    /\ UNCHANGED <<apiKey, configured, device, lastInput, turn, files, recording,
                   f_name, wav_path, user_text, reply, raised>>

\* user_text = transcribe_whisper_local(wav_path)
Transcribe ==
    /\ pc = "transcribe"
    /\ \E t \in Transcripts :
         /\ user_text' = t
         /\ trace' = Append(trace, Event("transcribe", wav_path, t, TRUE))
    /\ pc' = AfterStage("transcribe", TRUE)
    /\ UNCHANGED <<exitCode, apiKey, configured, device, lastInput, turn, files,
                   recording, f_name, wav_path, reply, raised>>

TranscribeFail ==
    /\ pc = "transcribe"
    /\ trace' = Append(trace, Event("transcribe", wav_path, NoText, FALSE))
    /\ raised' = "TranscriptionError"
    /\ pc' = AfterStage("transcribe", FALSE)
    /\ UNCHANGED <<exitCode, apiKey, configured, device, lastInput, turn, files,
                   recording, f_name, wav_path, user_text, reply>>

\* reply = ask_gemini(user_text): generate_content, then response.text.strip().
\* Without a configured key the request cannot succeed.
AskGemini ==
    /\ pc = "infer"
    /\ configured # NoKey
    /\ \E r \in Responses :
         /\ reply' = Strip(r)
         /\ trace' = Append(trace, Event("infer", user_text, Strip(r), TRUE))
    /\ pc' = AfterStage("infer", TRUE)
    /\ UNCHANGED <<exitCode, apiKey, configured, device, lastInput, turn, files,
                   recording, f_name, wav_path, user_text, raised>>

AskGeminiFail ==
    /\ pc = "infer"
    /\ trace' = Append(trace, Event("infer", user_text, NoText, FALSE))
    /\ raised' = "InferenceError"
    /\ pc' = AfterStage("infer", FALSE)
    /\ UNCHANGED <<exitCode, apiKey, configured, device, lastInput, turn, files,
                   recording, f_name, wav_path, user_text, reply>>

\* speak(reply)
Speak ==
    /\ pc = "speak"
    /\ trace' = Append(trace, Event("speak", SpeakInput(user_text, reply), NoText, TRUE))
    /\ pc' = AfterStage("speak", TRUE)
    /\ UNCHANGED <<exitCode, apiKey, configured, device, lastInput, turn, files,
                   recording, f_name, wav_path, user_text, reply, raised>>

SpeakFail ==
    /\ pc = "speak"
    /\ trace' = Append(trace, Event("speak", SpeakInput(user_text, reply), NoText, FALSE))
    /\ raised' = "PlaybackError"
    /\ pc' = AfterStage("speak", FALSE)
    /\ UNCHANGED <<exitCode, apiKey, configured, device, lastInput, turn, files,
                   recording, f_name, wav_path, user_text, reply>>

\* The finally block, then either the next iteration of the loop or, with an
\* exception pending, the exception leaving main (no except clause).
Finally ==
    /\ pc = "finally"
    /\ files' = Release(wav_path, files, raised)
    /\ trace' = IF files' # files
                THEN Append(trace, Event("delete", wav_path, NoText, TRUE))
                ELSE trace
    /\ IF raised = NoError
       THEN pc' = "wait" /\ exitCode' = exitCode
       ELSE pc' = "exited" /\ exitCode' = 1
    /\ UNCHANGED <<apiKey, configured, device, lastInput, turn, recording,
                   f_name, wav_path, user_text, reply, raised>>

Next ==
    \/ ModuleInit
    \/ MainSetup
    \/ MainSetupFail
    \/ DetectWakeWord
    \/ SdRec
    \/ SdRecFail
    \/ MkTemp
    \/ MkTempFail
    \/ WavWrite
    \/ WavWriteFail
    \/ Transcribe
    \/ TranscribeFail
    \/ AskGemini
    \/ AskGeminiFail
    \/ Speak
    \/ SpeakFail
    \/ Finally

Spec == Init /\ [][Next]_vars

----------------------------------------------------------------------------
(* Helpers for the properties *)

TryPcs == {"transcribe", "infer", "speak", "finally"}

Ops(tr) == [i \in 1..Len(tr) |-> tr[i].op]

Has(tr, op) == \E i \in 1..Len(tr) : tr[i].op = op

HasFailed(tr, op) == \E i \in 1..Len(tr) : tr[i].op = op /\ ~tr[i].ok

IsStage(e) == e.op \in {"rec", "transcribe", "infer", "speak", "delete"}

TypeOK ==
    /\ pc \in {"import", "main", "wait", "rec", "mktemp", "wavwrite",
               "transcribe", "infer", "speak", "finally", "exited"}
    /\ exitCode \in {NoExit, 0, 1}
    /\ turn \in 0..MaxTurns
    /\ files \subseteq Paths

----------------------------------------------------------------------------
(* Properties *)

StageEvents(tr) == SelectSeq(tr, IsStage)

\* A turn in which nothing failed: each stage once, in order, every call
\* returned, and each stage was given the value the stage before it returned.
CleanTurn(tr, path) ==
    LET st == StageEvents(tr) IN
    /\ Ops(st) = <<"rec", "transcribe", "infer", "speak", "delete">>
    /\ \A i \in 1..Len(st) : st[i].ok
    /\ st[2].arg = path
    /\ st[3].arg = st[2].ret
    /\ st[4].arg = st[3].ret
    /\ st[5].arg = path

\* C1: whenever control leaves main's per-turn try/finally block, after a
\* success or after transcribe_whisper_local, ask_gemini or speak raised,
\* the WAV file record_audio returned no longer exists.
C1_ArtifactRemovedOnLeavingTry ==
    [][(pc \in TryPcs /\ pc' \notin TryPcs) => wav_path \notin files']_vars

C1_Witness ==
    /\ pc = "exited"
    /\ raised = "PlaybackError"
    /\ Has(trace, "delete")
    /\ wav_path \notin files

\* C2: a transcription, inference or playback failure never terminates the
\* process: the process has not exited while such a failure is the pending
\* exception of the turn.
C2_StageFailureNeverExits ==
    ~(pc = "exited" /\ raised # NoError)

\* C3: in a turn whose transcription returned the empty text, ask_gemini is
\* not called.
C3_EmptyTranscriptSkipsInference ==
    (\E i \in 1..Len(trace) :
        trace[i].op = "transcribe" /\ trace[i].ok /\ trace[i].ret = <<>>)
    => ~Has(trace, "infer")

\* C4: a stage that raised prevents the later stages of the turn: after a
\* failed transcription neither ask_gemini nor speak is called, after a
\* failed ask_gemini speak is not called.
C4_FailedStagePreventsLater ==
    /\ HasFailed(trace, "transcribe") => ~Has(trace, "infer") /\ ~Has(trace, "speak")
    /\ HasFailed(trace, "infer") => ~Has(trace, "speak")

C4_Witness ==
    /\ pc = "exited"
    /\ HasFailed(trace, "infer")
    /\ Has(trace, "transcribe")
    /\ ~Has(trace, "speak")

\* C5: a KeyboardInterrupt delivered to the input() of detect_wake_word
\* makes the process exit with code 0 without any call being made, and once
\* the process has exited no call is made.
C5_InterruptExitsCleanly ==
    [][ /\ (pc = "wait" /\ lastInput'.kind = "KeyboardInterrupt")
            => (pc' = "exited" /\ exitCode' = 0 /\ trace' = trace)
        /\ pc = "exited" => (pc' = "exited" /\ trace' = trace) ]_vars

C5_Witness ==
    /\ pc = "exited"
    /\ exitCode = 0
    /\ lastInput.kind = "KeyboardInterrupt"
    /\ turn > 0
    /\ Has(trace, "speak")

\* C6: a turn in which no stage failed ran capture, transcription, inference,
\* playback and deletion once each in that order, ask_gemini got the
\* transcription result, speak got ask_gemini's reply, and the controller
\* is waiting for the trigger again; a turn starts only from waiting.
C6_CleanTurnOrderAndDataFlow ==
    [][ /\ (pc = "finally" /\ raised = NoError)
            => (pc' = "wait" /\ CleanTurn(trace', wav_path))
        /\ turn' # turn => pc = "wait" ]_vars

C6_Witness ==
    /\ pc = "wait"
    /\ turn = MaxTurns
    /\ raised = NoError
    /\ CleanTurn(trace, wav_path)
    /\ user_text = <<" ", "h", "i">>
    /\ reply = <<"P", "a", "r", "i", "s", ".">>

\* C7: without GOOGLE_API_KEY in the environment the program fails at
\* startup: it never waits for the wake trigger and never makes a call.
C7_MissingKeyFailsAtStartup ==
    apiKey = NoKey =>
        /\ pc \in {"import", "main", "exited"}
        /\ trace = <<>>
        /\ lastInput = NoInput

\* C8 (as stated): the device is never recorded from before the temporary
\* file of the turn has been created.
C8_FileCreatedBeforeRecording ==
    \A i \in 1..Len(trace) :
        trace[i].op = "rec" =>
            \E j \in 1..(i - 1) : trace[j].op = "mktemp" /\ trace[j].ok

\* C8 (amended): the temporary file is created only after the recording
\* from the device has completed; a failure to create it comes after the
\* capture, leaves no file, and is followed by no transcription, inference
\* or playback call in that turn.
C8_FileCreatedAfterRecording ==
    /\ \A i \in 1..Len(trace) :
          trace[i].op = "mktemp" =>
              \E j \in 1..(i - 1) : trace[j].op = "rec" /\ trace[j].ok
    /\ HasFailed(trace, "mktemp") =>
          /\ ~Has(trace, "transcribe")
          /\ ~Has(trace, "infer")
          /\ ~Has(trace, "speak")
          /\ files = {}

C8_Witness ==
    /\ HasFailed(trace, "mktemp")
    /\ Has(trace, "rec")
    /\ pc = "exited"

\* C9: while the controller waits for the trigger, and after the process
\* has exited, no temporary WAV file written by record_audio exists.
C9_NoArtifactOutsideTurn ==
    pc \in {"wait", "exited"} => files = {}

\* C10: record_audio is entered only straight from detect_wake_word having
\* read a line that equals "jarvis" once stripped and lower-cased; after any
\* other line no call is made and the controller waits again.
C10_TurnOnlyOnWakeWord ==
    [][ /\ (pc' \in {"rec", "mktemp", "wavwrite"} /\ pc \notin {"rec", "mktemp", "wavwrite"})
            => /\ pc = "wait"
               /\ lastInput'.kind = "line"
               /\ Lower(Strip(lastInput'.text)) = Jarvis
        /\ (pc = "wait" /\ lastInput'.kind = "line"
              /\ Lower(Strip(lastInput'.text)) # Jarvis)
            => (pc' = "wait" /\ trace' = trace /\ turn' = turn /\ files' = files) ]_vars

C10_Witness ==
    /\ pc = RecordAudioSteps[1]
    /\ turn = MaxTurns
    /\ lastInput.kind = "line"
    /\ lastInput.text = <<" ", "J", "A", "R", "V", "I", "S", "\t">>

====
